---- MODULE Spec2Model ----
(***************************************************************************)
(* Model of src/twilio_audio_downloader_mcp/server.py: the configuration   *)
(* built at import time (TwilioConfig), credential resolution              *)
(* (get_auth_for_url), the download tool (download_twilio_audio) and the   *)
(* configuration report (get_server_config).                               *)
(*                                                                         *)
(* Python str and bytes values are sequences: a str is a sequence of       *)
(* one-character strings, a bytes value a sequence of numbers 0..255.      *)
(***************************************************************************)
EXTENDS Integers, Sequences, FiniteSets, TLC

(***************************************************************************)
(* str helpers                                                             *)
(***************************************************************************)
UpperChars == <<"A","B","C","D","E","F","G","H","I","J","K","L","M",
                "N","O","P","Q","R","S","T","U","V","W","X","Y","Z">>
LowerChars == <<"a","b","c","d","e","f","g","h","i","j","k","l","m",
                "n","o","p","q","r","s","t","u","v","w","x","y","z">>
DigitChars == <<"0","1","2","3","4","5","6","7","8","9">>

Range(s) == {s[i] : i \in DOMAIN s}

\* str.lower() on one character
LowerChar(c) ==
  IF \E i \in DOMAIN UpperChars : UpperChars[i] = c
    THEN LowerChars[CHOOSE i \in DOMAIN UpperChars : UpperChars[i] = c]
    ELSE c

\* str.lower()
Lower(s) == [i \in DOMAIN s |-> LowerChar(s[i])]

\* s[a-1:b] of Python, 1-based and inclusive here; empty when b < a
Slice(s, a, b) == IF b < a THEN <<>> ELSE SubSeq(s, a, b)

\* str.startswith(p)
StartsWith(s, p) == Len(s) >= Len(p) /\ SubSeq(s, 1, Len(p)) = p

\* sub in s
Contains(s, sub) ==
  \E i \in 1..(Len(s) - Len(sub) + 1) : SubSeq(s, i, i + Len(sub) - 1) = sub

\* str.find(c, from): the first position >= from holding c, 0 when absent
Find(s, c, from) ==
  IF \E i \in from..Len(s) : s[i] = c
    THEN CHOOSE i \in from..Len(s) : s[i] = c /\ \A j \in from..(i - 1) : s[j] # c
    ELSE 0

\* str.rfind(c): the last position holding c, 0 when absent
RFind(s, c) ==
  IF \E i \in DOMAIN s : s[i] = c
    THEN CHOOSE i \in DOMAIN s : s[i] = c /\ \A j \in (i + 1)..Len(s) : s[j] # c
    ELSE 0

\* str.split(c, 1) when c is in s: <<before the first c, after it>>
SplitFirst(s, c) ==
  LET i == Find(s, c, 1) IN <<Slice(s, 1, i - 1), Slice(s, i + 1, Len(s))>>

\* str.split(c)[0]
SplitHead(s, c) == IF Find(s, c, 1) = 0 THEN s ELSE SplitFirst(s, c)[1]

\* str.split(c)[-1]
SplitLast(s, c) == Slice(s, RFind(s, c) + 1, Len(s))

WhiteSpace == {" ", "\t", "\n", "\r"}

\* str.strip()
Strip(s) ==
  IF \A i \in DOMAIN s : s[i] \in WhiteSpace THEN <<>>
  ELSE LET a == CHOOSE i \in DOMAIN s :
                  s[i] \notin WhiteSpace /\ \A j \in 1..(i - 1) : s[j] \in WhiteSpace
           b == CHOOSE i \in DOMAIN s :
                  s[i] \notin WhiteSpace /\ \A j \in (i + 1)..Len(s) : s[j] \in WhiteSpace
       IN SubSeq(s, a, b)

(***************************************************************************)
(* urllib.parse.urlparse, as called at server.py:73, :121 and :164.        *)
(* The result is [raises, scheme, netloc, path]; raises stands for the     *)
(* ValueError("Invalid IPv6 URL") of a netloc with an unmatched bracket.   *)
(***************************************************************************)
SchemeChars == Range(UpperChars) \cup Range(LowerChars) \cup Range(DigitChars)
                 \cup {"+", "-", "."}

\* the position of the first of "/", "?", "#" at or after from, Len+1 when none
NetlocEnd(s, from) ==
  IF \E i \in from..Len(s) : s[i] \in {"/", "?", "#"}
    THEN CHOOSE i \in from..Len(s) :
           s[i] \in {"/", "?", "#"} /\ \A j \in from..(i - 1) : s[j] \notin {"/", "?", "#"}
    ELSE Len(s) + 1

\* urllib.parse._splitparams: the path without its ";params"
SplitParams(p) ==
  LET i == IF Find(p, "/", 1) # 0 THEN Find(p, ";", RFind(p, "/")) ELSE Find(p, ";", 1)
  IN IF i = 0 THEN p ELSE Slice(p, 1, i - 1)

urlparse(url) ==
  LET i       == Find(url, ":", 1)
      hasSch  == i > 1 /\ \A k \in 1..(i - 1) : url[k] \in SchemeChars
      scheme  == IF hasSch THEN Lower(Slice(url, 1, i - 1)) ELSE <<>>
      rest    == IF hasSch THEN Slice(url, i + 1, Len(url)) ELSE url
      hasNet  == StartsWith(rest, <<"/", "/">>)
      e       == NetlocEnd(rest, 3)
      netloc  == IF hasNet THEN Slice(rest, 3, e - 1) ELSE <<>>
      rest2   == IF hasNet THEN Slice(rest, e, Len(rest)) ELSE rest
      noFrag  == SplitHead(rest2, "#")
      noQuery == SplitHead(noFrag, "?")
      bad     == \/ ("[" \in Range(netloc) /\ "]" \notin Range(netloc))
                 \/ ("]" \in Range(netloc) /\ "[" \notin Range(netloc))
  IN [raises |-> bad, scheme |-> scheme, netloc |-> netloc,
      path |-> SplitParams(noQuery)]

(***************************************************************************)
(* The process environment read at import time.  An environment is         *)
(* [entries, sid, token]: entries is os.environ in iteration order as      *)
(* <<key, value>> pairs, sid and token are the settings pydantic loads     *)
(* into twilio_account_sid and twilio_auth_token.                          *)
(***************************************************************************)
K_X    == <<"A","U","T","H","_","X">>
K_Y    == <<"A","U","T","H","_","Y">>
K_T    == <<"A","U","T","H","_","T">>
K_Z    == <<"A","U","T","H","_","Z">>
K_N    == <<"A","U","T","H","_","N">>
K_E    == <<"A","U","T","H","_","E">>
K_B    == <<"A","U","T","H","_","B">>
K_PATH == <<"P","A","T","H">>

\* "https://ex.com|bob:secret"
V_Ex == <<"h","t","t","p","s",":","/","/","e","x",".","c","o","m","|",
          "b","o","b",":","s","e","c","r","e","t">>
\* "https://Sub.Twilio.com|al:pw:1|z"
V_SubTwilio == <<"h","t","t","p","s",":","/","/","S","u","b",".","T","w","i","l","i","o",
                 ".","c","o","m","|","a","l",":","p","w",":","1","|","z">>
\* "no-separator"
V_NoSeparator == <<"n","o","-","s","e","p","a","r","a","t","o","r">>
\* "https://ex.com|nocolon"
V_NoColon == <<"h","t","t","p","s",":","/","/","e","x",".","c","o","m","|",
               "n","o","c","o","l","o","n">>
\* "ex.com|u:p"
V_NoNetloc == <<"e","x",".","c","o","m","|","u",":","p">>
\* "http://[x|u:p"
V_Bracket == <<"h","t","t","p",":","/","/","[","x","|","u",":","p">>
\* "http://EX.com|eve:pw2"
V_ExUpper == <<"h","t","t","p",":","/","/","E","X",".","c","o","m","|",
               "e","v","e",":","p","w","2">>

S_AC1  == <<"A","C","1">>
S_tok1 == <<"t","o","k","1">>
S_AC2  == <<"A","C","2">>
S_tok2 == <<"t","o","k","2">>

Environments ==
  { [entries |-> <<>>, sid |-> <<>>, token |-> <<>>],
    [entries |-> << <<K_X, V_Ex>>, <<K_Y, V_NoSeparator>> >>,
     sid |-> <<>>, token |-> <<>>],
    [entries |-> << <<K_X, V_Ex>>, <<K_T, V_SubTwilio>>, <<K_PATH, V_ExUpper>> >>,
     sid |-> S_AC1, token |-> S_tok1],
    [entries |-> << <<K_X, V_Ex>>, <<K_T, V_SubTwilio>>, <<K_PATH, V_ExUpper>> >>,
     sid |-> S_AC1, token |-> <<>>],
    [entries |-> << <<K_X, V_Ex>>, <<K_N, V_NoColon>>, <<K_E, V_NoNetloc>>,
                    <<K_Z, V_ExUpper>> >>,
     sid |-> S_AC2, token |-> S_tok2],
    [entries |-> << <<K_X, V_Ex>>, <<K_B, V_Bracket>> >>,
     sid |-> S_AC1, token |-> S_tok1] }

(***************************************************************************)
(* TwilioConfig (server.py:40-79).  auth_credentials is a dict: a sequence *)
(* of [key, username, password, base_url] with distinct keys, in insertion *)
(* order.                                                                  *)
(***************************************************************************)
S_localhost == <<"l","o","c","a","l","h","o","s","t">>
S_INFO      == <<"I","N","F","O">>
S_AUTH_     == <<"A","U","T","H","_">>
DefaultPort == 8080

\* the field defaults of the class
TwilioConfigDefaults ==
  [host |-> S_localhost, port |-> DefaultPort, log_level |-> S_INFO,
   twilio_account_sid |-> <<>>, twilio_auth_token |-> <<>>,
   auth_credentials |-> <<>>]

\* key in d
DictHas(d, k) == \E i \in DOMAIN d : d[i].key = k

\* d[k]
DictGet(d, k) == d[CHOOSE i \in DOMAIN d : d[i].key = k]

\* d[k] = v: an existing key keeps its position, a new key is appended
DictSet(d, v) ==
  IF DictHas(d, v.key)
    THEN [i \in DOMAIN d |-> IF d[i].key = v.key THEN v ELSE d[i]]
    ELSE Append(d, v)

\* list(d.keys())
DictKeys(d) == [i \in DOMAIN d |-> d[i].key]

\* One iteration of the loop of _load_auth_from_env over <<key, value>>:
\* [raised, creds], raised when urlparse raises.
LoadAuthEntry(creds, key, value) ==
  IF ~StartsWith(key, S_AUTH_) THEN [raised |-> FALSE, creds |-> creds]
  ELSE IF "|" \notin Range(value) THEN [raised |-> FALSE, creds |-> creds]
  ELSE LET base_url_part == SplitFirst(value, "|")[1]
           auth_part     == SplitFirst(value, "|")[2]
       IN IF ":" \notin Range(auth_part) THEN [raised |-> FALSE, creds |-> creds]
          ELSE LET username    == SplitFirst(auth_part, ":")[1]
                   password    == SplitFirst(auth_part, ":")[2]
                   parsed_base == urlparse(base_url_part)
               IN IF parsed_base.raises THEN [raised |-> TRUE, creds |-> creds]
                  ELSE IF parsed_base.netloc = <<>>
                         THEN [raised |-> FALSE, creds |-> creds]
                  ELSE [raised |-> FALSE,
                        creds  |-> DictSet(creds,
                                     [key      |-> Lower(parsed_base.netloc),
                                      username |-> username,
                                      password |-> password,
                                      base_url |-> base_url_part])]

\* _load_auth_from_env: the loop over os.environ.items(), stopped by an exception
RECURSIVE LoadAuthLoop(_, _)
LoadAuthLoop(creds, entries) ==
  IF entries = <<>> THEN [raised |-> FALSE, creds |-> creds]
  ELSE LET r == LoadAuthEntry(creds, Head(entries)[1], Head(entries)[2])
       IN IF r.raised THEN r ELSE LoadAuthLoop(r.creds, Tail(entries))

_load_auth_from_env(e) == LoadAuthLoop(<<>>, e.entries)

\* TwilioConfig(): the settings, then the credentials
TwilioConfigNew(e) ==
  [TwilioConfigDefaults EXCEPT !.twilio_account_sid = e.sid,
                               !.twilio_auth_token  = e.token,
                               !.auth_credentials   = _load_auth_from_env(e).creds]

(***************************************************************************)
(* get_file_extension_from_content_type (server.py:96-116)                 *)
(***************************************************************************)
extension_map ==
  << << <<"a","u","d","i","o","/","w","a","v">>,         <<".","w","a","v">> >>,
     << <<"a","u","d","i","o","/","x","-","w","a","v">>, <<".","w","a","v">> >>,
     << <<"a","u","d","i","o","/","w","a","v","e">>,     <<".","w","a","v">> >>,
     << <<"a","u","d","i","o","/","m","p","e","g">>,     <<".","m","p","3">> >>,
     << <<"a","u","d","i","o","/","m","p","3">>,         <<".","m","p","3">> >>,
     << <<"a","u","d","i","o","/","m","p","4">>,         <<".","m","4","a">> >>,
     << <<"a","u","d","i","o","/","m","4","a">>,         <<".","m","4","a">> >>,
     << <<"a","u","d","i","o","/","a","a","c">>,         <<".","a","a","c">> >>,
     << <<"a","u","d","i","o","/","o","g","g">>,         <<".","o","g","g">> >>,
     << <<"a","u","d","i","o","/","f","l","a","c">>,     <<".","f","l","a","c">> >>,
     << <<"a","u","d","i","o","/","w","e","b","m">>,     <<".","w","e","b","m">> >>,
     << <<"a","u","d","i","o","/","3","g","p","p">>,     <<".","3","g","p">> >>,
     << <<"a","u","d","i","o","/","a","m","r">>,         <<".","a","m","r">> >> >>

S_bin == <<".","b","i","n">>

get_file_extension_from_content_type(content_type) ==
  LET ct == Strip(SplitHead(Lower(content_type), ";"))
  IN IF \E i \in DOMAIN extension_map : extension_map[i][1] = ct
       THEN extension_map[CHOOSE i \in DOMAIN extension_map : extension_map[i][1] = ct][2]
       ELSE S_bin

(***************************************************************************)
(* get_auth_for_url (server.py:119-135).  None is <<>>, a credential pair  *)
(* is <<username, password>>.  The call is made only on a url that         *)
(* urlparse has already accepted at server.py:164.                         *)
(***************************************************************************)
S_twilio_com == <<"t","w","i","l","i","o",".","c","o","m">>

\* a faulty variant: the exact-match table is consulted before the substring rule
get_auth_for_url_TableFirst(cfg, url) ==
  LET netloc == Lower(urlparse(url).netloc)
  IN IF DictHas(cfg.auth_credentials, netloc)
       THEN <<DictGet(cfg.auth_credentials, netloc).username,
              DictGet(cfg.auth_credentials, netloc).password>>
     ELSE IF /\ Contains(netloc, S_twilio_com)
             /\ cfg.twilio_account_sid # <<>>
             /\ cfg.twilio_auth_token # <<>>
       THEN <<cfg.twilio_account_sid, cfg.twilio_auth_token>>
     ELSE <<>>

get_auth_for_url(cfg, url) ==
  LET netloc == Lower(urlparse(url).netloc)
  IN IF /\ Contains(netloc, S_twilio_com)
        /\ cfg.twilio_account_sid # <<>>
        /\ cfg.twilio_auth_token # <<>>
       THEN <<cfg.twilio_account_sid, cfg.twilio_auth_token>>
     ELSE IF DictHas(cfg.auth_credentials, netloc)
       THEN <<DictGet(cfg.auth_credentials, netloc).username,
              DictGet(cfg.auth_credentials, netloc).password>>
     ELSE <<>>

(***************************************************************************)
(* base64.b64encode(...).decode('utf-8') (server.py:224)                   *)
(***************************************************************************)
B64Chars ==
  <<"A","B","C","D","E","F","G","H","I","J","K","L","M","N","O","P","Q","R","S","T",
    "U","V","W","X","Y","Z","a","b","c","d","e","f","g","h","i","j","k","l","m","n",
    "o","p","q","r","s","t","u","v","w","x","y","z","0","1","2","3","4","5","6","7",
    "8","9","+","/">>

B64(n) == B64Chars[n + 1]

RECURSIVE b64encode(_)
b64encode(b) ==
  IF Len(b) = 0 THEN <<>>
  ELSE IF Len(b) = 1
    THEN <<B64(b[1] \div 4), B64((b[1] % 4) * 16), "=", "=">>
  ELSE IF Len(b) = 2
    THEN <<B64(b[1] \div 4), B64((b[1] % 4) * 16 + b[2] \div 16),
           B64((b[2] % 16) * 4), "=">>
  ELSE <<B64(b[1] \div 4), B64((b[1] % 4) * 16 + b[2] \div 16),
         B64((b[2] % 16) * 4 + b[3] \div 64), B64(b[3] % 64)>>
       \o b64encode(SubSeq(b, 4, Len(b)))

(***************************************************************************)
(* The values download_twilio_audio returns                                *)
(***************************************************************************)
\* AudioDownloadResponse(success=False, error_message=msg).dict()
\* (server.py:86-93); data is Optional[str]: <<>> is None, <<s>> is s
AudioDownloadResponse(error_message) ==
  [success |-> FALSE, data |-> <<>>, filename |-> <<>>, content_type |-> <<>>,
   size_bytes |-> 0, error_message |-> error_message]

S_file == <<"f","i","l","e",":","/","/">>

\* EmbeddedResource(type="resource", resource=BlobResourceContents(...)).dict()
\* (server.py:236-245)
EmbeddedResource(filename, encoded_data, content_type) ==
  [type |-> "resource",
   resource |-> [uri |-> S_file \o filename, blob |-> encoded_data,
                 mimeType |-> content_type]]

\* the value of a worker that has returned nothing yet
NoResult == [pending |-> TRUE]

M_OnlyHttp == <<"O","n","l","y"," ","H","T","T","P"," ","a","n","d"," ","H","T","T","P","S",
                " ","U","R","L","s"," ","a","r","e"," ","s","u","p","p","o","r","t","e","d">>
M_InvalidUrl == <<"I","n","v","a","l","i","d"," ","U","R","L"," ","f","o","r","m","a","t",
                  ":"," ">>
M_FailedParse == <<"F","a","i","l","e","d"," ","t","o"," ","p","a","r","s","e"," ","U","R",
                   "L"," ">>
M_HttpFailed == <<"H","T","T","P"," ","r","e","q","u","e","s","t"," ","f","a","i","l","e",
                  "d"," ","f","o","r"," ">>
M_Empty == <<"D","o","w","n","l","o","a","d","e","d"," ","f","i","l","e"," ","i","s"," ",
             "e","m","p","t","y">>
M_Unexpected == <<"U","n","e","x","p","e","c","t","e","d"," ","e","r","r","o","r"," ","d",
                  "o","w","n","l","o","a","d","i","n","g"," ","a","u","d","i","o"," ","f",
                  "r","o","m"," ">>
M_Colon == <<":"," ">>

\* str(e) of the exceptions the model raises
E_InvalidIPv6 == <<"I","n","v","a","l","i","d"," ","I","P","v","6"," ","U","R","L">>
E_Timeout     == <<"R","e","a","d"," ","t","i","m","e","d"," ","o","u","t">>
E_Broken      == <<"C","o","n","n","e","c","t","i","o","n"," ","b","r","o","k","e","n">>
E_HttpError   == <<" ","E","r","r","o","r"," ","f","o","r"," ","u","r","l">>
E_Validation  == <<"U","R","L"," ","v","a","l","i","d","a","t","i","o","n"," ","e","r","r",
                   "o","r">>

\* str(n) of a three-digit number
Str3(n) == <<DigitChars[(n \div 100) + 1], DigitChars[((n \div 10) % 10) + 1],
             DigitChars[(n % 10) + 1]>>

(***************************************************************************)
(* get_server_config (server.py:265-283)                                   *)
(***************************************************************************)
S_server_name == <<"T","w","i","l","i","o"," ","A","u","d","i","o"," ","D","o","w","n","l",
                   "o","a","d","e","r"," ","M","C","P"," ","S","e","r","v","e","r">>
S_version == <<"0",".","1",".","0">>
SupportedProtocols == << <<"h","t","t","p">>, <<"h","t","t","p","s">> >>
SupportedAudioFormats ==
  << <<"w","a","v">>, <<"m","p","3">>, <<"m","4","a">>, <<"a","a","c">>, <<"o","g","g">>,
     <<"f","l","a","c">>, <<"w","e","b","m">>, <<"3","g","p">>, <<"a","m","r">> >>

\* a faulty variant: the report also carries the token field of the settings
get_server_config_WithToken(cfg) ==
  [server_name |-> S_server_name,
   version |-> S_version,
   host |-> cfg.host,
   port |-> cfg.port,
   log_level |-> cfg.log_level,
   twilio_auth_token |-> cfg.twilio_auth_token,
   twilio_configured |-> (cfg.twilio_account_sid # <<>> /\ cfg.twilio_auth_token # <<>>),
   additional_auth_domains |-> DictKeys(cfg.auth_credentials),
   supported_protocols |-> SupportedProtocols,
   supported_audio_formats |-> SupportedAudioFormats]

get_server_config(cfg) ==
  [server_name |-> S_server_name,
   version |-> S_version,
   host |-> cfg.host,
   port |-> cfg.port,
   log_level |-> cfg.log_level,
   twilio_configured |-> (cfg.twilio_account_sid # <<>> /\ cfg.twilio_auth_token # <<>>),
   additional_auth_domains |-> DictKeys(cfg.auth_credentials),
   supported_protocols |-> SupportedProtocols,
   supported_audio_formats |-> SupportedAudioFormats]

(***************************************************************************)
(* Inputs of the tool calls and outcomes of the remote exchange            *)
(***************************************************************************)
\* "https://sub.twilio.com/x"
U_SubTwilio == <<"h","t","t","p","s",":","/","/","s","u","b",".","t","w","i","l","i","o",
                 ".","c","o","m","/","x">>
\* "http://Ex.com/a/r1"
U_Ex == <<"h","t","t","p",":","/","/","E","x",".","c","o","m","/","a","/","r","1">>
\* "http://no.org/"
U_NoRoute == <<"h","t","t","p",":","/","/","n","o",".","o","r","g","/">>
\* "ftp:///a"
U_Ftp == <<"f","t","p",":","/","/","/","a">>
\* "HTTP://ex.com/a"
U_UpperScheme == <<"H","T","T","P",":","/","/","e","x",".","c","o","m","/","a">>
\* "http:///a"
U_NoHost == <<"h","t","t","p",":","/","/","/","a">>
\* "http://[x/a"
U_Bracket == <<"h","t","t","p",":","/","/","[","x","/","a">>

Urls == {U_SubTwilio, U_Ex, U_NoRoute, U_Ftp, U_UpperScheme, U_NoHost, U_Bracket}
\* the urls of the concurrent runs
ConcurrentUrls == {U_SubTwilio, U_Ex, U_Ftp}

\* status codes a server can send; http.client accepts 100..999
Statuses == {200, 204, 399, 400, 404, 500, 599, 600, 999}
\* the statuses of the concurrent runs
ConcurrentStatuses == {200, 404}

\* the content-type header: <<>> when absent, <<value>> when present
\* "AUDIO/MP4 ; codecs=x", "text/plain"
ContentTypeHeaders ==
  { <<>>,
    << <<"A","U","D","I","O","/","M","P","4"," ",";"," ","c","o","d","e","c","s","=","x">> >>,
    << <<"t","e","x","t","/","p","l","a","i","n">> >> }

\* what one iteration of response.iter_content can yield
ChunkValues == { <<>>, <<82>>, <<73, 255>> }
\* the chunks of the concurrent runs
ConcurrentChunkValues == { <<>>, <<82>> }

Workers == {"w1", "w2"}
\* the worker of the runs with a single caller
Caller == "w1"

\* the most chunks a response body is delivered in
MaxChunks == 2
\* the most tool calls made in one run
MaxCalls == 3

S_octet_stream == <<"a","p","p","l","i","c","a","t","i","o","n","/","o","c","t","e","t",
                    "-","s","t","r","e","a","m">>
S_twilio_audio_ == <<"t","w","i","l","i","o","_","a","u","d","i","o","_">>
S_http  == <<"h","t","t","p",":","/","/">>
S_https == <<"h","t","t","p","s",":","/","/">>

(***************************************************************************)
(* Pieces of download_twilio_audio (server.py:139-262)                     *)
(***************************************************************************)
\* a faulty variant: the prefix check ignores case
ValidScheme_IgnoreCase(url) ==
  StartsWith(Lower(url), S_http) \/ StartsWith(Lower(url), S_https)

\* url.startswith(('http://', 'https://')) (server.py:154)
ValidScheme(url) == StartsWith(url, S_http) \/ StartsWith(url, S_https)

\* response.raise_for_status() (server.py:190): requests raises HTTPError for
\* 400 <= status_code < 600 and for no other status
raise_for_status(status) == 400 <= status /\ status < 600

\* response.headers.get('content-type', 'application/octet-stream') (server.py:193)
HeaderOrDefault(header) == IF header = <<>> THEN S_octet_stream ELSE header[1]

\* the filename (server.py:199-200)
Filename(url, content_type) ==
  S_twilio_audio_ \o SplitLast(urlparse(url).path, "/")
    \o get_file_extension_from_content_type(content_type)

\* a faulty variant: no emptiness check
IsEmpty_Never(audio_data) == FALSE

\* len(audio_data) == 0 (server.py:215)
IsEmpty(audio_data) == Len(audio_data) = 0

\* a faulty variant: only RequestException is caught
ExceptClauses_NoCatchAll(url, exc) ==
  IF exc.class = "RequestException"
    THEN [pc |-> "done",
          result |-> AudioDownloadResponse(M_HttpFailed \o url \o M_Colon \o exc.text)]
    ELSE [pc |-> "raised", result |-> NoResult]

\* a faulty variant: a failed request is tried again
ExceptClauses_Retry(url, exc) ==
  IF exc.class = "RequestException"
    THEN [pc |-> "get", result |-> NoResult]
    ELSE [pc |-> "done",
          result |-> AudioDownloadResponse(M_Unexpected \o url \o M_Colon \o exc.text)]

\* the two except clauses of the outer try (server.py:247-262): where an
\* exception raised in the body takes the call, and the value it returns
ExceptClauses(url, exc) ==
  IF exc.class = "RequestException"
    THEN [pc |-> "done",
          result |-> AudioDownloadResponse(M_HttpFailed \o url \o M_Colon \o exc.text)]
    ELSE [pc |-> "done",
          result |-> AudioDownloadResponse(M_Unexpected \o url \o M_Colon \o exc.text)]

(***************************************************************************)
(* State                                                                   *)
(***************************************************************************)
VARIABLES
  environ,   \* the process environment, fixed for the run
  phase,     \* "import" before `config = TwilioConfig()` (server.py:83) has run,
             \* "serving" after it, "crashed" when it raised
  config,    \* the global config object
  inv,       \* per worker, the tool call it is running: its position and locals
  calls      \* the number of tool calls started

vars == <<environ, phase, config, inv, calls>>

\* a worker that runs no call.  gets, resolved and pulls count the calls of
\* requests.get, get_auth_for_url and the chunks taken from iter_content.
IdleWorker ==
  [pc |-> "idle", op |-> "none", url |-> <<>>, auth |-> <<>>, status |-> 0,
   content_type |-> <<>>, filename |-> <<>>, audio_data |-> <<>>,
   bytes_downloaded |-> 0, gets |-> 0, resolved |-> 0, pulls |-> 0,
   result |-> NoResult]

Init ==
  /\ environ \in Environments
  /\ phase = "import"
  /\ config = TwilioConfigDefaults
  /\ inv = [w \in Workers |-> IdleWorker]
  /\ calls = 0

\* config = TwilioConfig() (server.py:60-62, 83): an exception of
\* _load_auth_from_env leaves the module unimported
Boot ==
  /\ phase = "import"
  /\ IF _load_auth_from_env(environ).raised
       THEN phase' = "crashed" /\ UNCHANGED config
       ELSE phase' = "serving" /\ config' = TwilioConfigNew(environ)
  /\ UNCHANGED <<environ, inv, calls>>

\* download_twilio_audio, entry and validation (server.py:150-178)
Start(w, url) ==
  /\ phase = "serving"
  /\ inv[w].pc = "idle"
  /\ calls < MaxCalls
  /\ calls' = calls + 1
  /\ LET me == [IdleWorker EXCEPT !.op = "download", !.url = url]
     IN inv' = [inv EXCEPT ![w] =
          IF ~ValidScheme(url)
            THEN [me EXCEPT !.pc = "done",
                            !.result = AudioDownloadResponse(M_OnlyHttp)]
          ELSE IF urlparse(url).raises
            THEN [me EXCEPT !.pc = "done",
                            !.result = AudioDownloadResponse(
                               M_FailedParse \o url \o M_Colon \o E_InvalidIPv6)]
          ELSE IF urlparse(url).netloc = <<>>
            THEN [me EXCEPT !.pc = "done",
                            !.result = AudioDownloadResponse(M_InvalidUrl \o url)]
          ELSE [me EXCEPT !.pc = "auth"]]
  /\ UNCHANGED <<environ, phase, config>>

\* a faulty variant: the resolved credential is stored in the table under the host
GetAuth_Caching(w) ==
  /\ inv[w].pc = "auth"
  /\ inv' = [inv EXCEPT ![w].auth = get_auth_for_url(config, inv[w].url),
                        ![w].resolved = @ + 1,
                        ![w].pc = "get"]
  /\ config' = IF get_auth_for_url(config, inv[w].url) = <<>> THEN config
               ELSE [config EXCEPT !.auth_credentials =
                       DictSet(@, [key      |-> Lower(urlparse(inv[w].url).netloc),
                                   username |-> get_auth_for_url(config, inv[w].url)[1],
                                   password |-> get_auth_for_url(config, inv[w].url)[2],
                                   base_url |-> inv[w].url])]
  /\ UNCHANGED <<environ, phase, calls>>

\* auth = get_auth_for_url(url) (server.py:181-185)
GetAuth(w) ==
  /\ inv[w].pc = "auth"
  /\ inv' = [inv EXCEPT ![w].auth = get_auth_for_url(config, inv[w].url),
                        ![w].resolved = @ + 1,
                        ![w].pc = "get"]
  /\ UNCHANGED <<environ, phase, config, calls>>

\* the worker after an exception of the try body
Raise(me, exc) ==
  [me EXCEPT !.pc = ExceptClauses(me.url, exc).pc,
             !.result = ExceptClauses(me.url, exc).result]

\* requests.get raises: no connection, a timeout (server.py:189)
HttpGetFails(w) ==
  /\ inv[w].pc = "get"
  /\ inv' = [inv EXCEPT ![w] =
       Raise([inv[w] EXCEPT !.gets = @ + 1],
             [class |-> "RequestException", text |-> E_Timeout])]
  /\ UNCHANGED <<environ, phase, config, calls>>

\* requests.get returns a response; the status check, the header and the
\* filename (server.py:189-206)
HttpGetResponds(w, status, header) ==
  /\ inv[w].pc = "get"
  /\ LET me == [inv[w] EXCEPT !.gets = @ + 1, !.status = status]
     IN inv' = [inv EXCEPT ![w] =
          IF raise_for_status(status)
            THEN Raise(me, [class |-> "RequestException",
                            text |-> Str3(status) \o E_HttpError])
            ELSE [me EXCEPT !.pc = "read",
                            !.content_type = HeaderOrDefault(header),
                            !.filename = Filename(me.url, HeaderOrDefault(header)),
                            !.audio_data = <<>>,
                            !.bytes_downloaded = 0]]
  /\ UNCHANGED <<environ, phase, config, calls>>

\* one iteration of the loop over response.iter_content (server.py:208-211)
ReadChunk(w, chunk) ==
  /\ inv[w].pc = "read"
  /\ inv[w].pulls < MaxChunks
  /\ inv' = [inv EXCEPT ![w] =
       IF chunk # <<>>
         THEN [inv[w] EXCEPT !.pulls = @ + 1,
                             !.audio_data = @ \o chunk,
                             !.bytes_downloaded = @ + Len(chunk)]
         ELSE [inv[w] EXCEPT !.pulls = @ + 1]]
  /\ UNCHANGED <<environ, phase, config, calls>>

\* iter_content raises: the connection breaks while the body streams
StreamFails(w) ==
  /\ inv[w].pc = "read"
  /\ inv' = [inv EXCEPT ![w] =
       Raise(inv[w], [class |-> "RequestException", text |-> E_Broken])]
  /\ UNCHANGED <<environ, phase, config, calls>>

\* the loop ends; the emptiness check, the encoding and the returned value
\* (server.py:213-245).  uri_ok: whether FileUrl accepts "file://" + filename;
\* when it does not, pydantic raises a ValidationError.
Finish(w, uri_ok) ==
  /\ inv[w].pc = "read"
  /\ inv' = [inv EXCEPT ![w] =
       IF IsEmpty(inv[w].audio_data)
         THEN [inv[w] EXCEPT !.pc = "done",
                             !.result = AudioDownloadResponse(M_Empty)]
       ELSE IF ~uri_ok
         THEN Raise(inv[w], [class |-> "Exception", text |-> E_Validation])
       ELSE [inv[w] EXCEPT !.pc = "done",
                           !.result = EmbeddedResource(inv[w].filename,
                                                       b64encode(inv[w].audio_data),
                                                       inv[w].content_type)]]
  /\ UNCHANGED <<environ, phase, config, calls>>

\* the tool get_server_config, start to end (server.py:265-283)
GetServerConfig(w) ==
  /\ phase = "serving"
  /\ inv[w].pc = "idle"
  /\ calls < MaxCalls
  /\ calls' = calls + 1
  /\ inv' = [inv EXCEPT ![w] =
       [IdleWorker EXCEPT !.op = "config", !.pc = "done",
                          !.result = get_server_config(config)]]
  /\ UNCHANGED <<environ, phase, config>>

\* the returned value reaches the caller; the worker is free again
Return(w) ==
  /\ inv[w].pc = "done"
  /\ inv' = [inv EXCEPT ![w] = IdleWorker]
  /\ UNCHANGED <<environ, phase, config, calls>>

\* The server with its workers running tool calls concurrently, against a
\* remote end that answers 200 or 404 without a content-type header.
Next ==
  \/ Boot
  \/ \E w \in Workers, url \in ConcurrentUrls : Start(w, url)
  \/ \E w \in Workers : GetAuth(w)
  \/ \E w \in Workers : HttpGetFails(w)
  \/ \E w \in Workers, status \in ConcurrentStatuses :
       HttpGetResponds(w, status, <<>>)
  \/ \E w \in Workers, chunk \in ConcurrentChunkValues : ReadChunk(w, chunk)
  \/ \E w \in Workers : StreamFails(w)
  \/ \E w \in Workers, uri_ok \in BOOLEAN : Finish(w, uri_ok)
  \/ \E w \in Workers : GetServerConfig(w)
  \/ \E w \in Workers : Return(w)

Spec == Init /\ [][Next]_vars

\* One caller making one tool call after the other, against every outcome of
\* the remote exchange.
OneNext ==
  \/ Boot
  \/ \E url \in Urls : Start(Caller, url)
  \/ GetAuth(Caller)
  \/ HttpGetFails(Caller)
  \/ \E status \in Statuses, header \in ContentTypeHeaders :
       HttpGetResponds(Caller, status, header)
  \/ \E chunk \in ChunkValues : ReadChunk(Caller, chunk)
  \/ StreamFails(Caller)
  \/ \E uri_ok \in BOOLEAN : Finish(Caller, uri_ok)
  \/ GetServerConfig(Caller)
  \/ Return(Caller)

OneSpec == Init /\ [][OneNext]_vars

(***************************************************************************)
(* Properties                                                              *)
(***************************************************************************)
Downloading(w) == inv[w].op = "download"
Returned(w)    == inv[w].op = "download" /\ inv[w].pc = "done"

\* a returned value of the AudioDownloadResponse shape with success = False
IsFailure(r) ==
  /\ DOMAIN r = {"success", "data", "filename", "content_type", "size_bytes",
                 "error_message"}
  /\ r.success = FALSE
  /\ r.error_message # <<>>

\* a returned value of the AudioDownloadResponse shape with success = True
IsSuccess(r) ==
  /\ DOMAIN r = {"success", "data", "filename", "content_type", "size_bytes",
                 "error_message"}
  /\ r.success = TRUE

\* a returned value that is an embedded resource
IsResource(r) == DOMAIN r = {"type", "resource"}

HttpPrefix(url) == StartsWith(url, S_http) \/ StartsWith(url, S_https)

TwilioHost(url) == Contains(Lower(urlparse(url).netloc), S_twilio_com)

TwilioConfigured ==
  config.twilio_account_sid # <<>> /\ config.twilio_auth_token # <<>>

\* C1: once a call has resolved its credential, a url whose lowercased netloc
\* contains "twilio.com" got the configured (sid, token) pair whenever both are
\* non-empty, whether or not the table has an entry for that netloc; the table
\* entry is what it got only when the substring rule does not apply.
C1_TwilioRuleWins ==
  \A w \in Workers :
    (Downloading(w) /\ inv[w].resolved > 0) =>
      LET netloc == Lower(urlparse(inv[w].url).netloc)
      IN /\ (TwilioHost(inv[w].url) /\ TwilioConfigured) =>
               inv[w].auth = <<config.twilio_account_sid, config.twilio_auth_token>>
         /\ (~(TwilioHost(inv[w].url) /\ TwilioConfigured)
               /\ DictHas(config.auth_credentials, netloc)) =>
               inv[w].auth = <<DictGet(config.auth_credentials, netloc).username,
                               DictGet(config.auth_credentials, netloc).password>>

\* a twilio url resolved to the twilio pair while the table holds its host
C1_Witness ==
  \E w \in Workers :
    /\ Downloading(w) /\ inv[w].resolved > 0
    /\ TwilioHost(inv[w].url) /\ TwilioConfigured
    /\ DictHas(config.auth_credentials, Lower(urlparse(inv[w].url).netloc))
    /\ inv[w].auth = <<config.twilio_account_sid, config.twilio_auth_token>>

\* C2: a call on a url without the exact prefix "http://" or "https://" has
\* returned the scheme failure, has issued no request and has resolved no
\* credential, also when the url has no host or does not parse.
C2_BadSchemeFailsFirst ==
  \A w \in Workers :
    (Downloading(w) /\ ~HttpPrefix(inv[w].url)) =>
      /\ inv[w].pc = "done"
      /\ inv[w].result = AudioDownloadResponse(M_OnlyHttp)
      /\ inv[w].gets = 0
      /\ inv[w].resolved = 0
      /\ inv[w].status = 0

\* the url "HTTP://ex.com/a", refused for its upper-case scheme
C2_Witness ==
  \E w \in Workers :
    /\ Returned(w) /\ inv[w].url = U_UpperScheme
    /\ inv[w].result = AudioDownloadResponse(M_OnlyHttp)

\* C3: no exception leaves download_twilio_audio, and what it returns is a
\* failure with a message or the resource with its payload.
C3_NoExceptionEscapes ==
  \A w \in Workers :
    /\ inv[w].pc # "raised"
    /\ Returned(w) =>
         \/ IsFailure(inv[w].result)
         \/ (IsResource(inv[w].result) /\ inv[w].result.resource.blob # <<>>)

\* an error while the result is packaged came back as the generic failure
C3_Witness ==
  \E w \in Workers :
    /\ Returned(w) /\ inv[w].audio_data # <<>>
    /\ inv[w].result =
         AudioDownloadResponse(M_Unexpected \o inv[w].url \o M_Colon \o E_Validation)

\* C4: every returned value is a Success, with the success flag, the base64
\* payload, the filename, the content type and size_bytes equal to the number
\* of bytes buffered, after a status below 400 and a non-empty body; or it is a
\* Failure.
C4_TaggedResult ==
  \A w \in Workers :
    Returned(w) =>
      \/ IsFailure(inv[w].result)
      \/ /\ IsSuccess(inv[w].result)
         /\ inv[w].status \in 1..399
         /\ inv[w].audio_data # <<>>
         /\ inv[w].result.data = <<b64encode(inv[w].audio_data)>>
         /\ inv[w].result.filename = inv[w].filename
         /\ inv[w].result.content_type = inv[w].content_type
         /\ inv[w].result.size_bytes = Len(inv[w].audio_data)

\* C5: a call that buffered no byte returned a failure, the failure "Downloaded
\* file is empty" when the request and the stream did not fail; no returned
\* resource has an empty payload.
C5_EmptyBodyFails ==
  \A w \in Workers :
    Returned(w) =>
      /\ inv[w].audio_data = <<>> => IsFailure(inv[w].result)
      /\ (/\ inv[w].audio_data = <<>>
          /\ inv[w].status # 0
          /\ ~StartsWith(inv[w].result.error_message, M_HttpFailed)) =>
            inv[w].result = AudioDownloadResponse(M_Empty)
      /\ IsResource(inv[w].result) =>
            (inv[w].result.resource.blob # <<>> /\ inv[w].bytes_downloaded > 0)

\* a 200 response whose body came as empty chunks only
C5_Witness ==
  \E w \in Workers :
    /\ Returned(w) /\ inv[w].status = 200 /\ inv[w].pulls > 0
    /\ inv[w].audio_data = <<>>
    /\ inv[w].result = AudioDownloadResponse(M_Empty)

\* C6: a call whose request completed with a status of 400 or above returned a
\* failure starting with "HTTP request failed" and read nothing of the body.
C6_ErrorStatusFails ==
  \A w \in Workers :
    (Downloading(w) /\ inv[w].status >= 400) =>
      /\ inv[w].pc = "done"
      /\ IsFailure(inv[w].result)
      /\ StartsWith(inv[w].result.error_message, M_HttpFailed)
      /\ inv[w].pulls = 0
      /\ inv[w].audio_data = <<>>

\* the configurations that differ from cfg only in the values of its secrets:
\* the sid and the token (a set one stays set), the usernames and the passwords
SecretVariants(cfg) ==
  { [cfg EXCEPT !.twilio_account_sid = sid,
                !.twilio_auth_token  = token,
                !.auth_credentials   =
                   [i \in DOMAIN @ |-> [@[i] EXCEPT !.username = cred[1],
                                                    !.password = cred[2]]]] :
      sid   \in (IF cfg.twilio_account_sid = <<>> THEN {<<>>} ELSE {S_AC1, S_AC2}),
      token \in (IF cfg.twilio_auth_token = <<>> THEN {<<>>} ELSE {S_tok1, S_tok2}),
      cred  \in {<<S_AC1, S_tok1>>, <<S_AC2, S_tok2>>} }

\* C7: the report get_server_config returned is the report of every
\* configuration that differs only in secret values; it has the nine public
\* fields, twilio_configured is a boolean, the domains are the route hosts, and
\* neither the host nor the log level nor a domain contains the configured sid
\* or token.
C7_ReportHidesSecrets ==
  \A w \in Workers :
    (inv[w].op = "config" /\ inv[w].pc = "done") =>
      LET r == inv[w].result
          secrets == {config.twilio_account_sid, config.twilio_auth_token} \ {<<>>}
      IN /\ \A alt \in SecretVariants(config) : r = get_server_config(alt)
         /\ DOMAIN r = {"server_name", "version", "host", "port", "log_level",
                        "twilio_configured", "additional_auth_domains",
                        "supported_protocols", "supported_audio_formats"}
         /\ r.twilio_configured = TwilioConfigured
         /\ r.additional_auth_domains = DictKeys(config.auth_credentials)
         /\ \A x \in secrets :
              /\ ~Contains(r.host, x)
              /\ ~Contains(r.log_level, x)
              /\ \A i \in DOMAIN r.additional_auth_domains :
                   ~Contains(r.additional_auth_domains[i], x)

\* a report made with the twilio pair configured and routes in the table
C7_Witness ==
  \E w \in Workers :
    /\ inv[w].op = "config" /\ inv[w].pc = "done"
    /\ inv[w].result.twilio_configured = TRUE
    /\ Len(inv[w].result.additional_auth_domains) >= 2

\* the parts of the AUTH_ entry at position i of the environment
EntryValue(i)    == environ.entries[i][2]
EntryAuth(i)     == SplitFirst(EntryValue(i), "|")[2]
EntryHost(i)     == Lower(urlparse(SplitFirst(EntryValue(i), "|")[1]).netloc)
EntryPair(i)     == <<SplitFirst(EntryAuth(i), ":")[1], SplitFirst(EntryAuth(i), ":")[2]>>
EntryHasRoute(i) ==
  /\ StartsWith(environ.entries[i][1], S_AUTH_)
  /\ "|" \in Range(EntryValue(i))
  /\ ":" \in Range(EntryAuth(i))
  /\ EntryHost(i) # <<>>

\* the routes the table holds give the answers of the entries that declare them
RoutesOfEntries ==
  /\ \A i \in DOMAIN environ.entries :
       (/\ EntryHasRoute(i)
        /\ \A j \in (i + 1)..Len(environ.entries) :
             ~(EntryHasRoute(j) /\ EntryHost(j) = EntryHost(i))) =>
         \A u \in Urls :
           (/\ Lower(urlparse(u).netloc) = EntryHost(i)
            /\ ~(TwilioHost(u) /\ TwilioConfigured)) =>
             get_auth_for_url(config, u) = EntryPair(i)
  /\ \A u \in Urls :
       (/\ ~(TwilioHost(u) /\ TwilioConfigured)
        /\ \A i \in DOMAIN environ.entries :
             ~(EntryHasRoute(i) /\ EntryHost(i) = Lower(urlparse(u).netloc))) =>
         get_auth_for_url(config, u) = <<>>

\* C8: building the configuration never raises, and once it is built every
\* entry with both separators and a host answers for its lowercased host (the
\* last entry of a host, where several name it), and a host without an entry
\* has no credential.
C8_BuildNeverRaises ==
  /\ phase # "crashed"
  /\ phase = "serving" => RoutesOfEntries

\* C9: in every state of the concurrent runs after the build the configuration
\* is the one the build made from the environment, so no call has changed the
\* table or the twilio pair; every call in flight holds the credential that
\* configuration gives its url, and every report is the report of that
\* configuration, whatever the other worker is doing.
C9_ConfigNeverChanges ==
  phase = "serving" =>
    LET built == TwilioConfigNew(environ)
    IN /\ config = built
       /\ \A w \in Workers :
            /\ (Downloading(w) /\ inv[w].resolved > 0) =>
                 inv[w].auth = get_auth_for_url(built, inv[w].url)
            /\ (inv[w].op = "config" /\ inv[w].pc = "done") =>
                 inv[w].result = get_server_config(built)

\* two calls in flight at once, one holding a credential from the table
C9_Witness ==
  /\ phase = "serving"
  /\ \A w \in Workers : inv[w].pc \in {"get", "read"}
  /\ \E w \in Workers : inv[w].auth # <<>> /\ ~TwilioHost(inv[w].url)

\* C10: a call issues at most one request; after its request it is reading the
\* body or has returned, and when the request failed or was answered with an
\* error status it has returned a failure.
C10_NoRetry ==
  \A w \in Workers :
    /\ inv[w].gets <= 1
    /\ inv[w].gets = 1 => inv[w].pc \in {"read", "done"}
    /\ (inv[w].gets = 1 /\ (inv[w].status = 0 \/ inv[w].status \in 400..599)) =>
         (inv[w].pc = "done" /\ IsFailure(inv[w].result))

\* a request that timed out, answered by a failure after that one request
C10_Witness ==
  \E w \in Workers :
    /\ Returned(w) /\ inv[w].gets = 1 /\ inv[w].status = 0
    /\ inv[w].result =
         AudioDownloadResponse(M_HttpFailed \o inv[w].url \o M_Colon \o E_Timeout)

====
